---- MODULE Spec2Model ----
(***************************************************************************)
(* Model of scripts/extract_instructions.py: the batch pipeline that turns *)
(* HTML pages into Markdown instruction files.  Text is modelled as a      *)
(* sequence of tokens: single characters, plus the atomic tokens MARK      *)
(* ("<!-- Version:"), END ("-->"), tags, and fixed template literals.      *)
(***************************************************************************)
EXTENDS Integers, Sequences, FiniteSets, TLC

\* ---------------------------------------------------------------- bounds
MaxFiles == 2
MaxVLen == 4

\* ------------------------------------------------------ program constants
TitleMin == 10

\* ------------------------------------------------------------- tokens
MARK == "<!-- Version:"
END == "-->"
SP == " "
NL == "\n"
WS == {SP, NL}
NA == <<"N", "/", "A">>
DefaultTitle == <<"Instructions">>

Min(S) == CHOOSE x \in S : \A y \in S : x <= y

\* ------------------------------------------------------ str primitives
RECURSIVE LStrip(_)
LStrip(s) == IF s = <<>> THEN s ELSE IF Head(s) \in WS THEN LStrip(Tail(s)) ELSE s

RECURSIVE RStrip(_)
RStrip(s) ==
  IF s = <<>> THEN s
  ELSE IF s[Len(s)] \in WS THEN RStrip(SubSeq(s, 1, Len(s) - 1)) ELSE s

Strip(s) == RStrip(LStrip(s))

\* str.split(sep) for a one-token separator: always at least one part
RECURSIVE Split(_, _)
Split(s, sep) ==
  LET hits == {i \in 1..Len(s) : s[i] = sep} IN
  IF hits = {} THEN <<s>>
  ELSE LET i == Min(hits) IN
       <<SubSeq(s, 1, i - 1)>> \o Split(SubSeq(s, i + 1, Len(s)), sep)

\* str.split("  "): the separator is two consecutive spaces
RECURSIVE SplitDouble(_)
SplitDouble(s) ==
  LET hits == {i \in 1..(Len(s) - 1) : s[i] = SP /\ s[i + 1] = SP} IN
  IF hits = {} THEN <<s>>
  ELSE LET i == Min(hits) IN
       <<SubSeq(s, 1, i - 1)>> \o SplitDouble(SubSeq(s, i + 2, Len(s)))

\* str.splitlines(): like split on the line break, without a trailing empty line
SplitLines(s) ==
  LET p == Split(s, NL) IN
  IF p[Len(p)] = <<>> THEN SubSeq(p, 1, Len(p) - 1) ELSE p

RECURSIVE Join(_, _)
Join(parts, sep) ==
  IF parts = <<>> THEN <<>>
  ELSE IF Len(parts) = 1 THEN parts[1]
  ELSE parts[1] \o <<sep>> \o Join(Tail(parts), sep)

RECURSIVE Flatten(_)
Flatten(ss) == IF ss = <<>> THEN <<>> ELSE Head(ss) \o Flatten(Tail(ss))

Contains(s, tok) == \E i \in 1..Len(s) : s[i] = tok

\* variant: the extracted value is used without .strip()
DetectVersionUnstripped(html_content) ==
  LET lines == SplitLines(html_content)
      hits == {i \in 1..Len(lines) : Contains(lines[i], MARK)}
  IN IF hits = {} THEN NA
     ELSE Split(Split(lines[Min(hits)], MARK)[2], END)[1]

\* ------------------------------------------- version marker (lines 201-208)
\* the version passed to the generator for a file content
DetectVersion(html_content) ==
  LET lines == SplitLines(html_content)
      hits == {i \in 1..Len(lines) : Contains(lines[i], MARK)}
  IN IF hits = {} THEN NA
     ELSE LET version_line == lines[Min(hits)] IN
          Strip(Split(Split(version_line, MARK)[2], END)[1])


\* ----------------------------------------- HTML to text (lines 60-83)
Tags == {"<p>", "</p>", "<h1>", "</h1>"}
ScriptOpen == "<script>"
ScriptClose == "</script>"

\* remove every span from an opening token through its closing token
RECURSIVE DropSpan(_, _, _)
DropSpan(s, open, close) ==
  LET os == {i \in 1..Len(s) : s[i] = open} IN
  IF os = {} THEN s
  ELSE LET i == Min(os)
           cs == {j \in (i + 1)..Len(s) : s[j] = close}
           rest == IF cs = {} THEN <<>> ELSE SubSeq(s, Min(cs) + 1, Len(s))
       IN SubSeq(s, 1, i - 1) \o DropSpan(rest, open, close)

IsText(tok) == tok \notin Tags

\* soup(["script","style"]) decomposed, then soup.get_text(): tags and comments carry no text
GetText(html_content) ==
  SelectSeq(DropSpan(DropSpan(html_content, ScriptOpen, ScriptClose), MARK, END), IsText)

NonEmpty(chunk) == chunk # <<>>

\* the whitespace clean-up of lines 77-79
CleanWhitespace(text) ==
  LET raw == SplitLines(text)
      lines == [i \in 1..Len(raw) |-> Strip(raw[i])]
      perLine == [i \in 1..Len(lines) |->
                    LET ph == SplitDouble(lines[i]) IN [k \in 1..Len(ph) |-> Strip(ph[k])]]
      chunks == Flatten(perLine)
  IN Join(SelectSeq(chunks, NonEmpty), NL)

\* variant: no try/except around the parser, its exception reaches the caller
extract_text_from_html_unguarded(html_content, parseRaises) ==
  IF parseRaises
    THEN [raised |-> TRUE, value |-> html_content]
    ELSE [raised |-> FALSE, value |-> CleanWhitespace(GetText(html_content))]

\* extract_text_from_html: parseRaises is whether the parser raised
extract_text_from_html(html_content, parseRaises) ==
  IF parseRaises
    THEN [raised |-> FALSE, value |-> html_content]
    ELSE [raised |-> FALSE, value |-> CleanWhitespace(GetText(html_content))]

\* ------------------------------------- fallback template (lines 127-168)
\* the number of characters a token stands for
TokLen(tok) ==
  CASE tok = MARK -> 13
    [] tok \in {END, "<p>"} -> 3
    [] tok \in {"</p>", "<h1>"} -> 4
    [] tok = "</h1>" -> 5
    [] tok = ScriptOpen -> 8
    [] tok = ScriptClose -> 9
    [] OTHER -> 1

\* len(s)
RECURSIVE StrLen(_)
StrLen(s) == IF s = <<>> THEN 0 ELSE TokLen(Head(s)) + StrLen(Tail(s))

Meaningful(l) == Strip(l) # <<>> /\ StrLen(Strip(l)) > TitleMin

generate_markdown_template(text_content, version) ==
  LET lines == SelectSeq(Split(text_content, NL), Meaningful)
      title == IF lines # <<>> THEN lines[1] ELSE DefaultTitle
  IN <<"# ">> \o title \o <<"\n\nSource page version: ">> \o version
       \o <<"\n\n## Prerequisites ... *Generated instructions - Review and verify before using*\n">>


\* --------------------------------------- remote call (lines 17-57, 118-124)
NONE == <<"None">>
Reply1 == <<"# ", "R", "1">>
Reply2 == <<"# ", "R", "2">>
RemoteOutcomes == {"exception", "no_choices", "empty", "text"}

\* response.choices as the service returned it
Choices(outcome) ==
  CASE outcome = "no_choices" -> <<>>
    [] outcome = "empty" -> << <<>>, Reply2 >>
    [] outcome = "text" -> <<Reply1, Reply2>>
    [] OTHER -> <<>>

\* variant: the last candidate is returned instead of the first
call_copilot_api_last(outcome) ==
  IF outcome = "exception" THEN NONE
  ELSE IF Choices(outcome) # <<>> THEN Choices(outcome)[Len(Choices(outcome))] ELSE NONE

\* call_copilot_api: the token lookup or the request raising gives None
call_copilot_api(outcome) ==
  IF outcome = "exception" THEN NONE
  ELSE IF Choices(outcome) # <<>> THEN Choices(outcome)[1] ELSE NONE

Truthy(x) == x # NONE /\ x # <<>>

Take(s, n) == SubSeq(s, 1, IF Len(s) < n THEN Len(s) ELSE n)

\* variant: the fallback is built without the detected version
extract_instructions_from_html_noversion(clean_text, version, outcome) ==
  LET markdown == call_copilot_api(outcome) IN
  IF Truthy(markdown) THEN markdown ELSE generate_markdown_template(clean_text, NA)

\* the value extract_instructions_from_html returns after the remote call
extract_instructions_from_html(clean_text, version, outcome) ==
  LET markdown == call_copilot_api(outcome) IN
  IF Truthy(markdown) THEN markdown ELSE generate_markdown_template(clean_text, version)

\* variant: a failed call is attempted again
AfterCallRetry(api_result) == IF Truthy(api_result) THEN "open" ELSE "call"

\* what follows the single call: the result is used as it is, there is no second attempt
AfterCall(api_result) == "open"

\* ------------------------------------------------------------- directory
Stems == 1..MaxFiles
NoFile == <<"<absent>">>
OldDoc == <<"# ", "O", "L", "D">>

PageA == <<"<p>", "D", "o", " ", "X", " ", "t", "h", "e", "n", " ", "Y", "</p>">>
PageB == <<MARK, " ", "1", ".", "0", " ", END, NL, "<h1>", "S", "e", "t", "u", "p", " ",
           "G", "u", "i", "d", "e", "</h1>", "<script>", "x", "</script>", NL>>
PageC == <<"<p>", "H", "i", " ", " ", "y", "o", "u", "</p>">>
PageOf(stem) == CASE stem % 3 = 1 -> PageA [] stem % 3 = 2 -> PageB [] OTHER -> PageC

IsHtml(e) == e.ext = "html"

\* Path.glob("*.html"): the entries with the html suffix, in listing order
Glob(listing) == SelectSeq(listing, IsHtml)

\* how much of the text reached the file when a write fails: nothing, or its first block
PartialCuts(text) == {k \in {0, 1} : k < Len(text)}

\* every order a directory listing may come in
Orders(S) == {q \in [1..Cardinality(S) -> S] : \A e \in S : \E i \in DOMAIN q : q[i] = e}

\* <stem>_instructions.md is keyed by the stem
OutputName(e) == e.stem

\* variant: the file is opened in append mode
OpenForAppend(old) == IF old = NoFile THEN <<>> ELSE old

\* open(output_file, "w") creates or truncates
OpenForWrite(old) == <<>>

\* variant: the except clause leaves the loop
ExceptHandlerBreak(i, n) == [pc |-> "done", idx |-> 0]

\* the except clause of the loop: log and continue with the next file
ExceptHandler(i, n) == IF i < n THEN [pc |-> "read", idx |-> i + 1] ELSE [pc |-> "done", idx |-> 0]

\* the end of a loop iteration
NextIteration(i, n) == IF i < n THEN [pc |-> "read", idx |-> i + 1] ELSE [pc |-> "done", idx |-> 0]

\* ----------------------------------------------------------------- state
VARIABLES
  pages,        \* input directory: entry -> content
  dirOrder,     \* the order in which the directory lists its entries
  outKind,      \* "missing" | "dir" | "blocked" : what the output path is
  outFiles,     \* output directory: stem -> content or NoFile
  pc, html_files, idx,
  html_content, version, clean_text, markdown,
  plan,         \* what the environment did for each file (read, parse, remote, open, write)
  calls,        \* remote call attempts per file
  source,       \* where the file's document came from: "none" | "api" | "template"
  saved,        \* files whose output was written and closed
  reported,     \* "No HTML files found" was printed
  outInit,      \* the output directory when the run started
  run, firstOut, \* which run this is, and the output directory after the first
  vin, vout     \* input and result of the stand-alone version extraction

vars == <<pages, dirOrder, outKind, outFiles, pc, html_files, idx, html_content, version, clean_text,
          markdown, plan, calls, source, saved, reported, outInit, run, firstOut, vin, vout>>

HtmlEntries == {[stem |-> i, ext |-> "html"] : i \in Stems}
TxtEntry == [stem |-> 0, ext |-> "txt"]
NoPlan == [read |-> "?", parse |-> "?", remote |-> "?", open |-> "?", write |-> "?", cut |-> 0]
Cur == html_files[idx]

InitPipeline ==
  /\ \E S \in SUBSET HtmlEntries :
       /\ pages = [e \in S \cup {TxtEntry} |-> IF IsHtml(e) THEN PageOf(e.stem) ELSE <<"t">>]
       /\ \E q \in Orders(S) : dirOrder = q \o <<TxtEntry>>
  /\ outKind \in {"missing", "dir", "blocked"}
  /\ \E stale \in BOOLEAN :
       /\ stale => outKind = "dir"
       /\ outFiles = [i \in Stems |-> IF stale THEN OldDoc ELSE NoFile]
  /\ outInit = outFiles
  /\ pc = "start" /\ html_files = <<>> /\ idx = 0
  /\ html_content = <<>> /\ version = NA /\ clean_text = <<>> /\ markdown = <<>>
  /\ plan = [e \in HtmlEntries |-> NoPlan]
  /\ calls = [e \in HtmlEntries |-> 0]
  /\ source = [e \in HtmlEntries |-> "none"]
  /\ saved = {}
  /\ reported = FALSE
  /\ run = "first" /\ firstOut = outFiles

Unset == <<"?">>

Init == InitPipeline /\ vin = <<>> /\ vout = Unset

\* the environment's answer for one step of one file: free the first time, replayed afterwards
Env(e, field, o) == plan[e][field] \in {"?", o}

ClearLocals == html_content' = <<>> /\ version' = NA /\ clean_text' = <<>> /\ markdown' = <<>>

\* ---------------------------------------------------------------- actions
\* output_path.mkdir(exist_ok=True), outside any try
Mkdir ==
  /\ pc = "start"
  /\ IF outKind = "blocked"
       THEN pc' = "crashed" /\ UNCHANGED outKind
       ELSE pc' = "scan" /\ outKind' = "dir"
  /\ UNCHANGED <<pages, dirOrder, outFiles, html_files, idx, html_content, version, clean_text, markdown,
                 plan, calls, source, saved, reported, outInit, run, firstOut, vin, vout>>

\* list(pages_path.glob("*.html")) and the early return on an empty list
Scan ==
  /\ pc = "scan"
  /\ LET q == Glob(dirOrder) IN
       /\ html_files' = q
       /\ IF q = <<>>
            THEN reported' = TRUE /\ pc' = "done" /\ idx' = 0
            ELSE reported' = FALSE /\ pc' = "read" /\ idx' = 1
  /\ UNCHANGED <<pages, dirOrder, outKind, outFiles, html_content, version, clean_text, markdown,
                 plan, calls, source, saved, outInit, run, firstOut, vin, vout>>

\* open + read of the page, then the version detection
ReadFile ==
  /\ pc = "read"
  /\ \E o \in {"ok", "fail"} :
       /\ Env(Cur, "read", o)
       /\ plan' = [plan EXCEPT ![Cur].read = o]
       /\ IF o = "ok"
            THEN /\ html_content' = pages[Cur]
                 /\ version' = DetectVersion(pages[Cur])
                 /\ pc' = "extract"
                 /\ UNCHANGED <<idx, clean_text, markdown>>
            ELSE /\ pc' = ExceptHandler(idx, Len(html_files)).pc
                 /\ idx' = ExceptHandler(idx, Len(html_files)).idx
                 /\ ClearLocals
  /\ UNCHANGED <<pages, dirOrder, outKind, outFiles, html_files, calls, source, saved, reported,
                 outInit, run, firstOut, vin, vout>>

\* clean_text = extract_text_from_html(html_content)
ExtractText ==
  /\ pc = "extract"
  /\ \E o \in {"ok", "raises"} :
       /\ Env(Cur, "parse", o)
       /\ plan' = [plan EXCEPT ![Cur].parse = o]
       /\ LET r == extract_text_from_html(html_content, o = "raises") IN
          IF r.raised
            THEN /\ pc' = ExceptHandler(idx, Len(html_files)).pc
                 /\ idx' = ExceptHandler(idx, Len(html_files)).idx
                 /\ ClearLocals
            ELSE /\ clean_text' = r.value
                 /\ pc' = "call"
                 /\ UNCHANGED <<idx, html_content, version, markdown>>
  /\ UNCHANGED <<pages, dirOrder, outKind, outFiles, html_files, calls, source, saved, reported,
                 outInit, run, firstOut, vin, vout>>

\* the prompt is built and the request is sent
CallRemote ==
  /\ pc = "call"
  /\ calls' = [calls EXCEPT ![Cur] = @ + 1]
  /\ pc' = "await"
  /\ UNCHANGED <<pages, dirOrder, outKind, outFiles, html_files, idx, html_content, version, clean_text,
                 markdown, plan, source, saved, reported, outInit, run, firstOut, vin, vout>>

\* the request ends: a response, or an exception caught in call_copilot_api
RemoteReturn ==
  /\ pc = "await"
  /\ \E o \in RemoteOutcomes :
       /\ Env(Cur, "remote", o)
       /\ plan' = [plan EXCEPT ![Cur].remote = o]
       /\ markdown' = extract_instructions_from_html(clean_text, version, o)
       /\ pc' = AfterCall(call_copilot_api(o))
       /\ source' = [source EXCEPT ![Cur] =
                       IF pc' = "call" THEN "none"
                       ELSE IF Truthy(call_copilot_api(o)) THEN "api" ELSE "template"]
  /\ UNCHANGED <<pages, dirOrder, outKind, outFiles, html_files, idx, html_content, version,
                 clean_text, calls, saved, reported, outInit, run, firstOut, vin, vout>>

\* open(output_file, "w")
OpenOutput ==
  /\ pc = "open"
  /\ \E o \in {"ok", "fail"} :
       /\ Env(Cur, "open", o)
       /\ plan' = [plan EXCEPT ![Cur].open = o]
       /\ IF o = "ok"
            THEN /\ outFiles' = [outFiles EXCEPT ![OutputName(Cur)] = OpenForWrite(@)]
                 /\ pc' = "write"
                 /\ UNCHANGED <<idx, html_content, version, clean_text, markdown>>
            ELSE /\ pc' = ExceptHandler(idx, Len(html_files)).pc
                 /\ idx' = ExceptHandler(idx, Len(html_files)).idx
                 /\ ClearLocals
                 /\ UNCHANGED outFiles
  /\ UNCHANGED <<pages, dirOrder, outKind, html_files, calls, source, saved, reported,
                 outInit, run, firstOut, vin, vout>>

\* f.write(markdown_instructions) and the close: complete, or failing after k tokens
WriteOutput ==
  /\ pc = "write"
  /\ \/ /\ Env(Cur, "write", "ok")
        /\ plan' = [plan EXCEPT ![Cur].write = "ok"]
        /\ outFiles' = [outFiles EXCEPT ![OutputName(Cur)] = @ \o markdown]
        /\ saved' = saved \cup {Cur}
        /\ pc' = NextIteration(idx, Len(html_files)).pc
        /\ idx' = NextIteration(idx, Len(html_files)).idx
     \/ \E k \in PartialCuts(markdown) :
        /\ Env(Cur, "write", "fail")
        /\ plan[Cur].write = "fail" => plan[Cur].cut = k
        /\ plan' = [plan EXCEPT ![Cur].write = "fail", ![Cur].cut = k]
        /\ outFiles' = [outFiles EXCEPT ![OutputName(Cur)] = @ \o Take(markdown, k)]
        /\ saved' = saved
        /\ pc' = ExceptHandler(idx, Len(html_files)).pc
        /\ idx' = ExceptHandler(idx, Len(html_files)).idx
  /\ ClearLocals
  /\ UNCHANGED <<pages, dirOrder, outKind, html_files, calls, source, reported,
                 outInit, run, firstOut, vin, vout>>

\* the script is run a second time on the same directories
Rerun ==
  /\ pc \in {"done", "crashed"}
  /\ run = "first"
  /\ run' = "second"
  /\ firstOut' = outFiles
  /\ outInit' = outFiles
  /\ pc' = "start" /\ html_files' = <<>> /\ idx' = 0
  /\ calls' = [e \in HtmlEntries |-> 0]
  /\ source' = [e \in HtmlEntries |-> "none"]
  /\ saved' = {}
  /\ reported' = FALSE
  /\ UNCHANGED <<pages, dirOrder, outKind, outFiles, html_content, version, clean_text,
                 markdown, plan, vin, vout>>

\* the version detection applied to one file content on its own
VersionAlphabet == {MARK, END, SP, NL, "1"}
VersionInputs == UNION {[1..n -> VersionAlphabet] : n \in 0..MaxVLen}

InitVersion ==
  /\ vin \in VersionInputs /\ vout = Unset
  /\ pages = [e \in {TxtEntry} |-> <<"t">>] /\ dirOrder = <<TxtEntry>>
  /\ outKind = "dir" /\ outFiles = [i \in Stems |-> NoFile] /\ outInit = outFiles
  /\ pc = "idle" /\ html_files = <<>> /\ idx = 0
  /\ html_content = <<>> /\ version = NA /\ clean_text = <<>> /\ markdown = <<>>
  /\ plan = [e \in HtmlEntries |-> NoPlan]
  /\ calls = [e \in HtmlEntries |-> 0]
  /\ source = [e \in HtmlEntries |-> "none"]
  /\ saved = {} /\ reported = FALSE /\ run = "first" /\ firstOut = outFiles

Detect ==
  /\ vout = Unset
  /\ vout' = DetectVersion(vin)
  /\ UNCHANGED <<pages, dirOrder, outKind, outFiles, pc, html_files, idx, html_content, version,
                 clean_text, markdown, plan, calls, source, saved, reported, outInit, run,
                 firstOut, vin>>

SpecVersion == InitVersion /\ [][Detect]_vars

Next == Mkdir \/ Scan \/ ReadFile \/ ExtractText \/ CallRemote \/ RemoteReturn
          \/ OpenOutput \/ WriteOutput

Spec == Init /\ [][Next]_vars

NextTwice == Next \/ Rerun

\* the first of the two runs starts from an output directory without earlier outputs
Ascending(q) == \A i, j \in DOMAIN q : i < j => q[i].stem < q[j].stem

InitTwice == Init /\ Ascending(Glob(dirOrder)) /\ \A i \in Stems : outFiles[i] = NoFile

SpecTwice == InitTwice /\ [][NextTwice]_vars


\* ======================================================== properties
Present == {e \in DOMAIN pages : IsHtml(e)}
Terminated == pc \in {"done", "crashed"}
FailedStep(e) == plan[e].read = "fail" \/ plan[e].open = "fail" \/ plan[e].write = "fail"
FailOutcomes == {"exception", "no_choices", "empty"}

\* the text the extractor hands on for a file, from the page and what the parser did
ExtractedText(e) ==
  IF plan[e].parse = "raises" THEN pages[e] ELSE CleanWhitespace(GetText(pages[e]))

Template(e) == generate_markdown_template(ExtractedText(e), DetectVersion(pages[e]))

\* the Instruction Document of a file
ExpectedDoc(e) ==
  IF plan[e].remote \in {"exception", "no_choices"} THEN Template(e)
  ELSE IF Choices(plan[e].remote)[1] = <<>> THEN Template(e)
  ELSE Choices(plan[e].remote)[1]

\* ------------------------------------------------------------------ C1
\* C1 (as stated): when the run has ended, the number of Markdown files written equals
\* the number of HTML files read successfully; a file whose read raised has no output
\* and every other file has its output.
C1_Original ==
  Terminated =>
    /\ Cardinality(saved) = Cardinality({e \in Present : plan[e].read = "ok"})
    /\ \A e \in Present :
         /\ plan[e].read = "fail" => e \notin saved /\ outFiles[OutputName(e)] = outInit[OutputName(e)]
         /\ plan[e].read = "ok" => e \in saved

\* C1 (amended): when the run has ended normally, the files with a complete output are
\* exactly the enumerated HTML files whose read, open-for-write and write all succeeded,
\* each holding that file's Instruction Document under <stem>_instructions.md; a file whose
\* read raised leaves the output directory as it was, and no other output appears.  When
\* the run is ended by the directory creation failing, nothing was read and nothing written.
C1_Amended ==
  /\ pc = "done" =>
       /\ saved = {e \in Present : ~FailedStep(e)}
       /\ Cardinality(saved) =
            Cardinality({e \in Present : plan[e].read = "ok" /\ plan[e].open = "ok"
                                          /\ plan[e].write = "ok"})
       /\ \A e \in saved : outFiles[OutputName(e)] = ExpectedDoc(e)
       /\ \A e \in Present :
            plan[e].read = "fail" => outFiles[OutputName(e)] = outInit[OutputName(e)]
       /\ \A e \in HtmlEntries \ Present : outFiles[OutputName(e)] = outInit[OutputName(e)]
  /\ pc = "crashed" =>
       /\ saved = {} /\ outFiles = outInit
       /\ \A e \in HtmlEntries : plan[e].read = "?"

C1_Witness ==
  /\ pc = "done"
  /\ \E e1, e2 \in Present :
       /\ plan[e1].read = "ok" /\ plan[e1].write = "fail" /\ e1 \notin saved
       /\ e2 \in saved

\* ------------------------------------------------------------------ C2
\* C2: no error ends the batch: the run never stops on an exception, and when it has
\* ended every enumerated HTML file has been attempted.
C2_NoErrorTerminates ==
  /\ pc # "crashed"
  /\ pc = "done" => \A e \in Present : plan[e].read # "?"

\* ------------------------------------------------------------------ C3
\* C3: when the remote call fails for a file (the call raises, no candidate, or an empty
\* first text), extract_instructions_from_html returns generate_markdown_template of the
\* extracted text and the version, control is back in the caller at the save step, and
\* that template is what a completed write holds.
C3_FallbackOnFailure ==
  \A e \in HtmlEntries :
    plan[e].remote \in FailOutcomes =>
      /\ source[e] = "template"
      /\ plan[e].open = "?" => pc = "open" /\ Cur = e /\ markdown = Template(e)
      /\ (pc = "write" /\ Cur = e) => markdown = Template(e)
      /\ e \in saved => outFiles[OutputName(e)] = Template(e)

C3_Witness ==
  \E e \in Present :
    /\ plan[e].remote = "exception" /\ e \in saved
    /\ DetectVersion(pages[e]) # NA
    /\ outFiles[OutputName(e)] = Template(e)

\* ------------------------------------------------------------------ C4
\* C4 (as stated): when the service returns one or more candidates, the first candidate's
\* text is returned verbatim and written, and the fallback template is not used.
C4_Original ==
  \A e \in HtmlEntries :
    (plan[e].remote # "?" /\ Choices(plan[e].remote) # <<>>) =>
      /\ source[e] = "api"
      /\ plan[e].open = "?" => pc = "open" /\ Cur = e /\ markdown = Choices(plan[e].remote)[1]
      /\ e \in saved => outFiles[OutputName(e)] = Choices(plan[e].remote)[1]

\* C4 (amended): when the service returns one or more candidates and the first candidate's
\* text is not empty, that text is returned verbatim and written and the fallback template
\* is not used; with an empty first text the fallback template is returned.
C4_Amended ==
  \A e \in HtmlEntries :
    (plan[e].remote # "?" /\ Choices(plan[e].remote) # <<>>) =>
      LET first == Choices(plan[e].remote)[1] IN
      /\ first # <<>> =>
           /\ source[e] = "api"
           /\ plan[e].open = "?" => pc = "open" /\ Cur = e /\ markdown = first
           /\ e \in saved => outFiles[OutputName(e)] = first
      /\ first = <<>> =>
           /\ source[e] = "template"
           /\ plan[e].open = "?" => pc = "open" /\ Cur = e /\ markdown = Template(e)

C4_Witness ==
  \E e \in Present :
    /\ plan[e].remote = "text" /\ e \in saved
    /\ outFiles[OutputName(e)] = Reply1 /\ source[e] = "api"

\* ------------------------------------------------------------------ C5
\* C5: the write is all-or-nothing: once opening or writing a file's output has failed,
\* the file is skipped and the output of that name is either as it was before the run
\* or the complete document.
C5_AllOrNothing ==
  \A e \in HtmlEntries :
    (plan[e].open = "fail" \/ plan[e].write = "fail") =>
      /\ e \notin saved
      /\ outFiles[OutputName(e)] \in {outInit[OutputName(e)], ExpectedDoc(e)}

\* ------------------------------------------------------------------ C7
\* C7: after the second of two runs on the same directory with the same remote answers,
\* the output directory holds exactly what it held after the first run.
C7_Idempotent == (run = "second" /\ Terminated) => outFiles = firstOut

C7_Witness ==
  /\ run = "second" /\ pc = "done"
  /\ \E e1, e2 \in Present : e1 # e2 /\ e1 \in saved /\ e2 \in saved
  /\ outFiles = firstOut

\* ------------------------------------------------------------------ C8
\* C8: with no *.html file in the input directory the run reports it and ends normally,
\* writes no Markdown file and makes no remote call.
C8_EmptyDirectory ==
  Present = {} =>
    /\ Terminated => pc = "done" /\ reported
    /\ outFiles = outInit /\ saved = {}
    /\ \A e \in HtmlEntries : calls[e] = 0

\* ------------------------------------------------------------------ C9
Phase(e) ==
  IF e \in saved THEN "WRITTEN"
  ELSE IF source[e] = "api" THEN "SUCCEEDED"
  ELSE IF source[e] = "template" THEN "FALLBACK"
  ELSE IF calls[e] > 0 THEN "CALLING_REMOTE"
  ELSE "PENDING"

PhaseSteps ==
  {<<"PENDING", "CALLING_REMOTE">>, <<"CALLING_REMOTE", "SUCCEEDED">>,
   <<"CALLING_REMOTE", "FALLBACK">>, <<"SUCCEEDED", "WRITTEN">>, <<"FALLBACK", "WRITTEN">>}

\* C9 (as stated): when the run has ended normally every enumerated HTML file has had
\* exactly one remote call attempt.
C9_Original == pc = "done" => \A e \in Present : calls[e] = 1

\* C9 (amended): every enumerated HTML file that is read successfully incurs exactly one
\* remote call attempt, never retried, and a file whose read fails incurs none; a file's
\* progress only moves along PENDING -> CALLING_REMOTE -> {SUCCEEDED | FALLBACK} -> WRITTEN;
\* the attempt is made after the read and before the output is opened, and the output is
\* touched only after the attempt has ended in success or fallback.
C9_Amended ==
  [][\A e \in HtmlEntries :
       /\ Phase(e)' # Phase(e) => <<Phase(e), Phase(e)'>> \in PhaseSteps
       /\ calls'[e] <= 1
       /\ calls'[e] # calls[e] => plan[e].read = "ok" /\ plan[e].open = "?"
       /\ outFiles'[OutputName(e)] # outFiles[OutputName(e)] => Phase(e) \in {"SUCCEEDED", "FALLBACK"}
       /\ (pc' = "done" /\ e \in Present) =>
            calls'[e] = (IF plan'[e].read = "ok" THEN 1 ELSE 0)]_vars

C9_Witness ==
  /\ pc = "done"
  /\ \E e1, e2 \in Present :
       /\ plan[e1].read = "fail" /\ calls[e1] = 0 /\ Phase(e1) = "PENDING"
       /\ calls[e2] = 1 /\ Phase(e2) = "WRITTEN"

\* ----------------------------------------------------------------- C10
\* C10: extract_text_from_html never raises: after it has run for a file control is at
\* the remote call of that file, with the original content as the text when the parser
\* raised; such a file has had its remote call and its write attempted when the run ends.
C10_ExtractorTotal ==
  \A e \in HtmlEntries :
    /\ (plan[e].parse # "?" /\ calls[e] = 0) =>
         /\ pc = "call" /\ Cur = e
         /\ plan[e].parse = "raises" => clean_text = pages[e]
    /\ (plan[e].parse = "raises" /\ pc = "done") => calls[e] = 1 /\ plan[e].open # "?"

C10_Witness ==
  \E e \in Present :
    /\ plan[e].parse = "raises" /\ e \in saved /\ source[e] = "template"
    /\ outFiles[OutputName(e)] = generate_markdown_template(pages[e], DetectVersion(pages[e]))

\* ------------------------------------------------------------------ C6
AllWS(s) == \A i \in 1..Len(s) : s[i] \in WS

\* r is x with its surrounding whitespace removed
IsStripOf(r, x) ==
  /\ \E a \in 0..Len(x) :
       /\ a + Len(r) <= Len(x)
       /\ r = SubSeq(x, a + 1, a + Len(r))
       /\ AllWS(SubSeq(x, 1, a)) /\ AllWS(SubSeq(x, a + Len(r) + 1, Len(x)))
  /\ r # <<>> => r[1] \notin WS /\ r[Len(r)] \notin WS

\* the markers <!-- Version: X --> of a content: where they open and close on one line
CompleteMarkers(c) ==
  {m \in (1..Len(c)) \X (1..Len(c)) :
     /\ m[1] < m[2] /\ c[m[1]] = MARK /\ c[m[2]] = END
     /\ \A k \in (m[1] + 1)..(m[2] - 1) : c[k] \notin {MARK, END, NL}}

FirstMarker(c) == CHOOSE m \in CompleteMarkers(c) : \A o \in CompleteMarkers(c) : m[1] <= o[1]

\* C6 (as stated): a content with a marker <!-- Version: X --> gives the version X without
\* its surrounding whitespace, from the first marker; a content without one gives N/A.
C6_Original ==
  vout # Unset =>
    IF CompleteMarkers(vin) # {}
      THEN IsStripOf(vout, SubSeq(vin, FirstMarker(vin)[1] + 1, FirstMarker(vin)[2] - 1))
      ELSE vout = NA

\* C6 (amended): a content with no "<!-- Version:" gives N/A; otherwise the version is the
\* text after the first "<!-- Version:" up to the next "-->", the next "<!-- Version:" or
\* the end of that line, without its surrounding whitespace; when that first occurrence is
\* closed by "-->" on its line this is exactly X of <!-- Version: X -->.
C6_Amended ==
  vout # Unset =>
    LET opens == {i \in 1..Len(vin) : vin[i] = MARK} IN
    IF opens = {} THEN vout = NA
    ELSE LET m == Min(opens)
             stop == Min({j \in (m + 1)..Len(vin) : vin[j] \in {END, MARK, NL}} \cup {Len(vin) + 1})
         IN IsStripOf(vout, SubSeq(vin, m + 1, stop - 1))

C6_Witness ==
  /\ vout = <<"1">>
  /\ CompleteMarkers(vin) # {}
  /\ Contains(vin, SP)

====
